---- MODULE Spec2Model ----
(***************************************************************************)
(* Flashcard spaced-repetition scheduler of the AI Study Assistant backend *)
(* (backend/main.py): the in-memory card store, the persistent flashcards  *)
(* collection, card generation, due-selection, review and the document     *)
(* operations that surround them.                                          *)
(*                                                                         *)
(* Time is counted in ticks, TicksPerDay ticks to a day.  A timestamp is   *)
(* kept the way the code keeps it, as the ISO text of datetime.isoformat() *)
(* (here the pair <<date, time of day>>), and read back with               *)
(* datetime.fromisoformat().                                               *)
(***************************************************************************)
EXTENDS Integers, Sequences, FiniteSets, TLC

\* ---------------------------------------------------------------- bounds
MaxCards == 2          \* uuid4 values handed out to cards
MaxDocs == 1           \* document ids handed out by upload
MaxClock == 2          \* last tick of the wall clock
MaxElapsed == 1        \* ticks that may pass between two clock reads of a handler
MaxReviewCount == 11   \* SpecOneCard reviews a card while review_count is below this
MaxSharedCount == 2    \* Spec reviews a card while review_count is below this
MaxNegConfidence == 1  \* a client sends confidences down to -MaxNegConfidence
MaxConfidence == 6     \* and up to MaxConfidence
TicksPerDay == 2       \* resolution of the clock
FindLimit == 1000      \* cursor.to_list(length=1000)

CardIds == 1..MaxCards
DocIds == 1..MaxDocs
Confidences == (0 - MaxNegConfidence)..MaxConfidence
\* one confidence for each branch of the review, the outer two past 0..5
BranchConfidences == {0 - MaxNegConfidence, 3, MaxConfidence}

\* ---------------------------------------------------------------- state
VARIABLES
    clock,                \* datetime.now()
    gemini_ai_service,    \* TRUE when the service object was constructed
    flashcards_store,     \* card id -> card (dict of the process)
    db_flashcards,        \* db.flashcards, in insertion order
    db_documents,         \* db.documents: doc id -> document
    uploaded_documents,   \* app.state.uploaded_documents: doc id -> document
    next_uuid,            \* next card id uuid4 hands out
    next_doc,             \* next document id upload hands out
    request,              \* the call last handled and what it read
    response              \* what that call answered

vars == <<clock, gemini_ai_service, flashcards_store, db_flashcards,
          db_documents, uploaded_documents, next_uuid, next_doc,
          request, response>>

\* ---------------------------------------------------------------- helpers
Min(a, b) == IF a <= b THEN a ELSE b
Max(a, b) == IF a >= b THEN a ELSE b

\* date.isoformat(): the text of the date alone
IsoformatOfDate(t) == <<t \div TicksPerDay, 0>>

\* datetime.isoformat(): the text "<date>T<time>" of an instant
isoformat(t) == <<t \div TicksPerDay, t % TicksPerDay>>

\* datetime.fromisoformat(): the instant a text denotes
fromisoformat(s) == s[1] * TicksPerDay + s[2]

\* timedelta(hours=n) in the place of timedelta(days=n)
TimedeltaHours(n) == (n * TicksPerDay) \div 24

\* timedelta(days=n)
timedelta(n) == n * TicksPerDay

\* an index that reads the first entry of a table at 1
PyIndexFromOne(table, i) == table[i]

\* a medium-recall table that doubles from 4 days
MediumTableDoubling == <<1, 4, 8, 16, 32, 64>>

\* a good-recall table that ends at 60 days
GoodTableEndingAt60 == <<1, 3, 7, 14, 30, 60, 60>>

\* the two interval tables of review_flashcard, indexed from 0 as in Python
GoodTable == <<1, 3, 7, 14, 30, 60, 120>>
MediumTable == <<1, 2, 4, 7, 14, 30>>
PyIndex(table, i) == table[i + 1]

\* ---------------------------------------------------------------- documents
\* what the text extraction of an upload can leave in document['content']:
\* the sentences content.split('. ') yields, each longer than 20 characters
\* or not; <<>> is the empty text
Contents == { <<>>, <<"short", "long">> }

\* document_data of upload_document_simple, with the keys the flashcard
\* handlers read
NewDocument(doc_id, content) ==
    [id |-> doc_id, filename |-> doc_id, content |-> content]

\* ---------------------------------------------------------------- cards
\* one element of the list gemini_ai_service.generate_flashcards returns:
\* a dict with question and answer, or no dict at all
RawItems == {"qa", "junk"}

\* card_data.get(key, '')
CardGet(item, key) ==
    IF item = "qa" THEN (IF key = "question" THEN "Q" ELSE "A") ELSE ""

\* the replies of the language model, as lists of at most n elements
RECURSIVE RawReplies(_)
RawReplies(n) ==
    IF n = 0 THEN { <<>> }
    ELSE LET shorter == RawReplies(n - 1)
         IN shorter \cup { Append(r, i) : r \in { x \in shorter : Len(x) = n - 1 }, i \in RawItems }

\* a generation that makes a new card due at once
NewFlashcardDueNow(card_id, doc, item, now, created) ==
    [id |-> card_id,
     document_id |-> doc.id,
     front |-> CardGet(item, "question"),
     back |-> CardGet(item, "answer"),
     difficulty |-> 3,
     topic |-> doc.filename,
     next_review |-> isoformat(now),
     review_count |-> 0,
     confidence_level |-> 0,
     created_at |-> isoformat(created)]

\* the flashcard dict built for one element of the reply
NewFlashcard(card_id, doc, item, now, created) ==
    [id |-> card_id,
     document_id |-> doc.id,
     front |-> CardGet(item, "question"),
     back |-> CardGet(item, "answer"),
     difficulty |-> 3,
     topic |-> doc.filename,
     next_review |-> isoformat(now + timedelta(1)),
     review_count |-> 0,
     confidence_level |-> 0,
     created_at |-> isoformat(created)]

\* a review that stamps created_at along with last_reviewed
SetLastReviewedAndCreated(card, value) ==
    [last_reviewed |-> value] @@ [card EXCEPT !.created_at = value]

\* a dict with the key set (dict[key] = value)
SetLastReviewed(card, value) == [last_reviewed |-> value] @@ card
SetObjectId(card, value) == [oid |-> value] @@ card
Has(card, key) == key \in DOMAIN card

\* bson.ObjectId and the text str() makes of one
ObjectId(n) == <<"ObjectId", n>>
str(oid) == <<"str", oid[2]>>

\* serialize_value on a card: a new dict in which an ObjectId is replaced
\* by its text and every other value is kept
serialize_value(card) ==
    IF Has(card, "oid") THEN [card EXCEPT !.oid = str(card.oid)] ELSE card

SerializeAll(cards) == [i \in 1..Len(cards) |-> serialize_value(cards[i])]

\* flashcards_store.values(): the cards in the order they were put in
RECURSIVE ValuesFrom(_, _)
ValuesFrom(store, i) ==
    IF i > MaxCards THEN <<>>
    ELSE (IF i \in DOMAIN store THEN <<store[i]>> ELSE <<>>) \o ValuesFrom(store, i + 1)

StoreValues(store) == ValuesFrom(store, 1)

\* ---------------------------------------------------------------- scheduler
\* a review that counts itself twice
IncrementedTwice(review_count) == review_count + 2

\* card['review_count'] += 1
Incremented(review_count) == review_count + 1

\* a review that takes only 4 and 5 for good recall
RecallBranchInRange(confidence) ==
    IF confidence >= 4 /\ confidence <= 5 THEN "good"
    ELSE IF confidence = 3 THEN "medium"
    ELSE "poor"

\* the branch of review_flashcard a confidence takes
RecallBranch(confidence) ==
    IF confidence >= 4 THEN "good"
    ELSE IF confidence = 3 THEN "medium"
    ELSE "poor"

\* a review that indexes the good table by the count before the increment
IntervalDaysBeforeIncrement(confidence, review_count) ==
    CASE RecallBranch(confidence) = "good" ->
            PyIndex(GoodTable, Min(review_count - 1, 6))
      [] RecallBranch(confidence) = "medium" ->
            PyIndex(MediumTable, Min(review_count, 5))
      [] OTHER -> 1

\* a review that looks medium recall up in the good table
IntervalDaysOneTable(confidence, review_count) ==
    CASE RecallBranch(confidence) = "good" ->
            PyIndex(GoodTable, Min(review_count, 6))
      [] RecallBranch(confidence) = "medium" ->
            PyIndex(GoodTable, Min(review_count, 5))
      [] OTHER -> 1

\* interval_days, from the confidence and the incremented review_count
IntervalDays(confidence, review_count) ==
    CASE RecallBranch(confidence) = "good" ->
            PyIndex(GoodTable, Min(review_count, 6))
      [] RecallBranch(confidence) = "medium" ->
            PyIndex(MediumTable, Min(review_count, 5))
      [] OTHER -> 1

\* a poor-recall branch that forgets to take the increment back
BranchCountKept(confidence, review_count) == review_count

\* a poor-recall branch that resets past the increment without the clamp
BranchCountUnclamped(confidence, review_count) ==
    IF RecallBranch(confidence) = "poor"
    THEN review_count - 2
    ELSE review_count

\* a poor-recall branch that starts the card over
BranchCountStartingOver(confidence, review_count) ==
    IF RecallBranch(confidence) = "poor" THEN 0 ELSE review_count

\* review_count as the branch leaves it, from the incremented review_count
BranchCount(confidence, review_count) ==
    IF RecallBranch(confidence) = "poor"
    THEN Max(0, review_count - 1)
    ELSE review_count

\* a review that keeps the confidence within 0..5
ClampedConfidence(confidence) == Max(0, Min(5, confidence))

\* card['confidence_level'] = confidence
StoredConfidence(confidence) == confidence

\* the card as review_flashcard leaves it; started and now are the two
\* readings of datetime.now()
ReviewedCard(card, confidence, started, now) ==
    LET count == Incremented(card.review_count)
        interval_days == IntervalDays(confidence, count)
    IN SetLastReviewed(
           [card EXCEPT !.review_count = BranchCount(confidence, count),
                        !.confidence_level = StoredConfidence(confidence),
                        !.next_review = isoformat(now + timedelta(interval_days))],
           isoformat(started))

\* ---------------------------------------------------------------- due-selection
\* the filter of get_due_flashcards
IsDue(card, now) == fromisoformat(card.next_review) <= now

DueCards(cards, now) == SelectSeq(cards, LAMBDA c : IsDue(c, now))

\* a sort key of the difficulty alone
KeyLessByDifficulty(a, b) == (0 - a.difficulty) < (0 - b.difficulty)

\* key=lambda c: (-c['difficulty'], c['review_count']), compared as tuples
KeyLess(a, b) ==
    \/ (0 - a.difficulty) < (0 - b.difficulty)
    \/ /\ a.difficulty = b.difficulty
       /\ a.review_count < b.review_count

\* a sort that puts a card before the cards of equal key already sorted
RECURSIVE InsertBeforeEqual(_, _)
InsertBeforeEqual(sorted, card) ==
    IF sorted = <<>> THEN <<card>>
    ELSE IF ~KeyLess(Head(sorted), card) THEN <<card>> \o sorted
    ELSE <<Head(sorted)>> \o InsertBeforeEqual(Tail(sorted), card)

\* list.sort(key=...): stable, ascending on the key
RECURSIVE InsertByKey(_, _)
InsertByKey(sorted, card) ==
    IF sorted = <<>> THEN <<card>>
    ELSE IF KeyLess(card, Head(sorted)) THEN <<card>> \o sorted
    ELSE <<Head(sorted)>> \o InsertByKey(Tail(sorted), card)

RECURSIVE SortByKey(_)
SortByKey(cards) ==
    IF cards = <<>> THEN <<>>
    ELSE InsertByKey(SortByKey(SubSeq(cards, 1, Len(cards) - 1)), cards[Len(cards)])

\* cursor.to_list(length=1000)
ToList(collection) == SubSeq(collection, 1, Min(Len(collection), FindLimit))

\* ---------------------------------------------------------------- generation
\* how many elements of the reply the loop turns into cards before an
\* element that is no dict raises
RECURSIVE DictPrefix(_)
DictPrefix(raw) ==
    IF raw = <<>> \/ Head(raw) = "junk" THEN 0 ELSE 1 + DictPrefix(Tail(raw))

\* the cards the loop of generate_flashcards_for_document builds and stores
BuiltCards(raw, doc, first_id, now, created) ==
    [i \in 1..DictPrefix(raw) |->
        NewFlashcard(first_id + i - 1, doc, raw[i], now, created)]

\* insert_many gives every dict it is handed an _id
WithObjectIds(cards) ==
    [i \in 1..Len(cards) |-> SetObjectId(cards[i], ObjectId(cards[i].id))]

\* a generation that keeps in the store only the cards the collection took
PutPersisted(store, cards) ==
    LET taken == SelectSeq(cards, LAMBDA c : Has(c, "oid")) IN
    [id \in DOMAIN store \cup { taken[i].id : i \in 1..Len(taken) } |->
        IF \E i \in 1..Len(taken) : taken[i].id = id
        THEN taken[CHOOSE i \in 1..Len(taken) : taken[i].id = id]
        ELSE store[id]]

\* flashcards_store[card_id] = flashcard, for every card of the list
PutAll(store, cards) ==
    [id \in DOMAIN store \cup { cards[i].id : i \in 1..Len(cards) } |->
        IF \E i \in 1..Len(cards) : cards[i].id = id
        THEN cards[CHOOSE i \in 1..Len(cards) : cards[i].id = id]
        ELSE store[id]]

\* the cards of the simple mode: one for each of the first 20 sentences
\* that is longer than 20 characters
RECURSIVE SimpleFrom(_, _, _)
SimpleFrom(doc, i, now) ==
    IF i >= Min(Len(doc.content), 20) THEN <<>>
    ELSE (IF doc.content[i + 1] = "long"
          THEN << [id |-> <<doc.filename, i>>, question |-> i, answer |-> i,
                   difficulty |-> "medium", created_at |-> isoformat(now)] >>
          ELSE <<>>) \o SimpleFrom(doc, i + 1, now)

SimpleCards(doc, now) == SimpleFrom(doc, 0, now)

\* the document generate_flashcards_for_document works on: the one find_one
\* returns, else the one in memory
DocSource(doc_id, find_ok) ==
    IF find_ok /\ doc_id \in DOMAIN db_documents THEN "db"
    ELSE IF doc_id \in DOMAIN uploaded_documents THEN "memory"
    ELSE "none"

DocOf(doc_id, source) ==
    IF source = "db" THEN db_documents[doc_id] ELSE uploaded_documents[doc_id]

\* a handler that answers 200 whatever it found
AnswerOk(op, status) == [op |-> op, status |-> 200]

Answer(op, status) == [op |-> op, status |-> status]

\* a not-found condition that reaches the client as a server error
NotFoundAsServerError(op) == Answer(op, 500)

\* raise HTTPException(status_code=404, ...)
NotFound(op) == Answer(op, 404)

\* POST /api/documents/{doc_id}/flashcards; find_ok and insert_ok are FALSE
\* when find_one and insert_many raise (or get_database is None), raw is the
\* reply of the language model, and elapsed the time between the reading of
\* the clock for next_review and the one for created_at.  The request notes
\* the elements of the reply the loop came to and whether the insertion of
\* the cards built failed.  What the handler writes into the document it
\* works on is not kept: no handler modelled here reads it.
GenerateFlashcardsForDocument(doc_id, find_ok, raw, insert_ok, elapsed) ==
    LET source == DocSource(doc_id, find_ok)
        refused == [op |-> "generate_for_document", doc_id |-> doc_id]
    IN
    /\ UNCHANGED <<gemini_ai_service, db_documents, next_doc>>
    /\ IF source = "none" THEN
          /\ request' = refused
          /\ response' = NotFound("generate_for_document")
          /\ UNCHANGED <<clock, flashcards_store, db_flashcards, uploaded_documents, next_uuid>>
       ELSE IF DocOf(doc_id, source).content = <<>> THEN
          /\ request' = refused
          /\ response' = Answer("generate_for_document", 400)
          /\ UNCHANGED <<clock, flashcards_store, db_flashcards, uploaded_documents, next_uuid>>
       ELSE IF ~gemini_ai_service THEN
          /\ request' = refused
          /\ response' = Answer("generate_for_document", 503)
          /\ UNCHANGED <<clock, flashcards_store, db_flashcards, uploaded_documents, next_uuid>>
       ELSE
          LET doc == DocOf(doc_id, source)
              now == clock
              created == clock + elapsed
              built == BuiltCards(raw, doc, next_uuid, now, created)
              raised == DictPrefix(raw) < Len(raw)
              inserted == ~raised /\ built # <<>> /\ insert_ok
              kept == IF inserted THEN WithObjectIds(built) ELSE built
              simple == SimpleCards(doc, created)
          IN
          /\ next_uuid + Len(built) - 1 <= MaxCards
          /\ created <= MaxClock
          /\ request' = [op |-> "generate_for_document", doc_id |-> doc_id,
                         reply |-> SubSeq(raw, 1, Min(Len(raw), DictPrefix(raw) + 1)),
                         insert_failed |-> ~raised /\ built # <<>> /\ ~insert_ok]
          /\ clock' = created
          /\ next_uuid' = next_uuid + Len(built)
          /\ flashcards_store' = PutAll(flashcards_store, kept)
          /\ db_flashcards' = IF inserted THEN db_flashcards \o kept ELSE db_flashcards
          /\ UNCHANGED uploaded_documents
          /\ response' =
                IF raised
                THEN [op |-> "generate_for_document", status |-> 200,
                      message |-> "Flashcards generated (simple mode)",
                      flashcards |-> simple, total |-> Len(simple)]
                ELSE [op |-> "generate_for_document", status |-> 200,
                      message |-> "Flashcards generated successfully",
                      flashcards |-> SerializeAll(kept), total |-> Len(kept)]

\* a handler that finds its documents and stores a card with the difficulty
\* the reply of the language model names, here 9
GenerateFlashcardsStoring(document_id) ==
    LET doc == NewDocument(document_id, <<"long">>)
        flashcard == [NewFlashcard(next_uuid, doc, "qa", clock, clock)
                         EXCEPT !.difficulty = 9]
    IN
    /\ next_uuid <= MaxCards
    /\ next_uuid' = next_uuid + 1
    /\ flashcards_store' = PutAll(flashcards_store, <<flashcard>>)
    /\ request' = [op |-> "generate", doc_id |-> document_id]
    /\ response' = Answer("generate", 200)
    /\ UNCHANGED <<clock, gemini_ai_service, db_flashcards,
                   db_documents, uploaded_documents, next_doc>>

\* POST /api/flashcards/generate: the module has no global uploaded_documents,
\* so the membership test on it raises NameError before anything is done
GenerateFlashcards(document_id) ==
    /\ request' = [op |-> "generate", doc_id |-> document_id]
    /\ response' = Answer("generate", 500)
    /\ UNCHANGED <<clock, gemini_ai_service, flashcards_store, db_flashcards,
                   db_documents, uploaded_documents, next_uuid, next_doc>>

\* ---------------------------------------------------------------- review
\* how far a specification follows the reviews of a card
Reviewable(card_id, limit) ==
    card_id \in DOMAIN flashcards_store => flashcards_store[card_id].review_count < limit

\* a review that also notes its confidence on every other card
StoreAfterReviewNotingAll(store, card_id, confidence, started, now) ==
    [id \in DOMAIN store |->
        IF id = card_id THEN ReviewedCard(store[id], confidence, started, now)
        ELSE [store[id] EXCEPT !.confidence_level = confidence]]

\* the store after review_flashcard: card = flashcards_store[card_id] is
\* the dict of the store, and the handler assigns to keys of that dict alone
StoreAfterReview(store, card_id, confidence, started, now) ==
    [store EXCEPT ![card_id] = ReviewedCard(store[card_id], confidence, started, now)]

\* a review that works on the card as the request before it found it, when
\* that request reviewed the same card: two requests that both read the
\* card before either wrote it
ReviewFlashcardOnStaleCard(card_id, confidence, elapsed) ==
    /\ UNCHANGED <<gemini_ai_service, db_flashcards, db_documents,
                   uploaded_documents, next_uuid, next_doc>>
    /\ IF card_id \notin DOMAIN flashcards_store THEN
          /\ request' = [op |-> "review", card_id |-> card_id, confidence |-> confidence]
          /\ response' = NotFound("review")
          /\ UNCHANGED <<clock, flashcards_store>>
       ELSE
          LET card == flashcards_store[card_id]
              stale == IF /\ request.op = "review" /\ response.status = 200
                          /\ request.card_id = card_id
                       THEN [card EXCEPT !.review_count = request.before]
                       ELSE card
              started == clock
              now == clock + elapsed
              reviewed == ReviewedCard(stale, confidence, started, now)
          IN
          /\ now <= MaxClock
          /\ clock' = now
          /\ flashcards_store' = [flashcards_store EXCEPT ![card_id] = reviewed]
          /\ request' = [op |-> "review", card_id |-> card_id, confidence |-> confidence,
                         before |-> card.review_count, started |-> started, now |-> now]
          /\ response' = [op |-> "review", status |-> 200,
                          next_review |-> reviewed.next_review,
                          interval_days |-> IntervalDays(confidence,
                                               Incremented(stale.review_count))]

\* POST /api/flashcards/{card_id}/review?confidence=<int>.  The coroutine
\* has no await: the event loop of the one server process runs it from its
\* first statement to its return and runs no other handler in between
ReviewFlashcard(card_id, confidence, elapsed) ==
    /\ UNCHANGED <<gemini_ai_service, db_flashcards, db_documents,
                   uploaded_documents, next_uuid, next_doc>>
    /\ IF card_id \notin DOMAIN flashcards_store THEN
          /\ request' = [op |-> "review", card_id |-> card_id, confidence |-> confidence]
          /\ response' = NotFound("review")
          /\ UNCHANGED <<clock, flashcards_store>>
       ELSE
          LET card == flashcards_store[card_id]
              started == clock
              now == clock + elapsed
              reviewed == ReviewedCard(card, confidence, started, now)
          IN
          /\ now <= MaxClock
          /\ clock' = now
          /\ flashcards_store' = StoreAfterReview(flashcards_store, card_id,
                                                  confidence, started, now)
          /\ request' = [op |-> "review", card_id |-> card_id, confidence |-> confidence,
                         before |-> card.review_count, started |-> started, now |-> now]
          /\ response' = [op |-> "review", status |-> 200,
                          next_review |-> reviewed.next_review,
                          interval_days |-> IntervalDays(confidence,
                                               Incremented(card.review_count))]

\* ---------------------------------------------------------------- due
\* a selection that serializes the dicts of the store in place
AfterSelectionInPlace(cards) == [id \in DOMAIN cards |-> serialize_value(cards[id])]

\* what get_due_flashcards leaves of the cards it selected from: the filter
\* and serialize_value build new lists and dicts, and sort orders the new list
AfterSelection(cards) == cards

\* GET /api/flashcards/due; find_ok is FALSE when reading db.flashcards raises
GetDueFlashcards(find_ok) ==
    LET now == clock
        all_cards == IF find_ok THEN ToList(db_flashcards)
                     ELSE StoreValues(flashcards_store)
        due_cards == SortByKey(DueCards(all_cards, now))
    IN
    /\ request' = [op |-> "due", now |-> now, find_ok |-> find_ok]
    /\ response' = [op |-> "due", status |-> 200,
                    flashcards |-> SerializeAll(due_cards),
                    total_due |-> Len(due_cards),
                    total_cards |-> IF find_ok THEN Len(all_cards)
                                    ELSE Cardinality(DOMAIN flashcards_store)]
    /\ flashcards_store' = AfterSelection(flashcards_store)
    /\ UNCHANGED <<clock, gemini_ai_service, db_flashcards,
                   db_documents, uploaded_documents, next_uuid, next_doc>>

\* ---------------------------------------------------------------- documents
Without(f, x) == [y \in DOMAIN f \ {x} |-> f[y]]
With(f, x, v) == [y \in DOMAIN f \cup {x} |-> IF y = x THEN v ELSE f[y]]

\* POST /api/documents/upload, for a file whose text is extracted without
\* an exception; insert_ok is FALSE when insert_one raises
UploadDocument(content, insert_ok) ==
    LET doc_id == next_doc
        document_data == NewDocument(doc_id, content)
    IN
    /\ doc_id <= MaxDocs
    /\ next_doc' = next_doc + 1
    /\ db_documents' = IF insert_ok THEN With(db_documents, doc_id, document_data)
                       ELSE db_documents
    /\ uploaded_documents' = With(uploaded_documents, doc_id, document_data)
    /\ request' = [op |-> "upload"]
    /\ response' = [op |-> "upload", status |-> 200, document_id |-> doc_id]
    /\ UNCHANGED <<clock, gemini_ai_service, flashcards_store, db_flashcards, next_uuid>>

\* a deletion that takes the cards of the document out of the store with it
DeleteDocumentWithCards(doc_id, find_ok, delete_ok, count_ok) ==
    LET found == find_ok /\ doc_id \in DOMAIN db_documents
        in_memory == doc_id \in DOMAIN uploaded_documents
        kept == { id \in DOMAIN flashcards_store :
                     flashcards_store[id].document_id # doc_id }
    IN
    /\ db_documents' = IF found /\ delete_ok THEN Without(db_documents, doc_id)
                       ELSE db_documents
    /\ uploaded_documents' = IF in_memory THEN Without(uploaded_documents, doc_id)
                             ELSE uploaded_documents
    /\ flashcards_store' = IF found \/ in_memory
                           THEN [id \in kept |-> flashcards_store[id]]
                           ELSE flashcards_store
    /\ request' = [op |-> "delete", doc_id |-> doc_id]
    /\ response' = IF ~found /\ ~in_memory THEN NotFound("delete")
                   ELSE [op |-> "delete", status |-> 200, document_id |-> doc_id,
                         remaining_documents |-> 0]
    /\ UNCHANGED <<clock, gemini_ai_service, db_flashcards, next_uuid, next_doc>>

\* DELETE /api/documents/{doc_id}; find_ok, delete_ok and count_ok are FALSE
\* when the call on db.documents raises
DeleteDocument(doc_id, find_ok, delete_ok, count_ok) ==
    LET found == find_ok /\ doc_id \in DOMAIN db_documents
        in_memory == doc_id \in DOMAIN uploaded_documents
        documents == IF found /\ delete_ok THEN Without(db_documents, doc_id)
                     ELSE db_documents
        memory == IF in_memory THEN Without(uploaded_documents, doc_id)
                  ELSE uploaded_documents
    IN
    /\ db_documents' = documents
    /\ uploaded_documents' = memory
    /\ request' = [op |-> "delete", doc_id |-> doc_id]
    /\ response' =
          IF ~found /\ ~in_memory THEN NotFound("delete")
          ELSE [op |-> "delete", status |-> 200, document_id |-> doc_id,
                remaining_documents |->
                    IF count_ok THEN Cardinality(DOMAIN documents)
                    ELSE Cardinality(DOMAIN memory)]
    /\ UNCHANGED <<clock, gemini_ai_service, flashcards_store, db_flashcards,
                   next_uuid, next_doc>>

\* ---------------------------------------------------------------- process
Empty == [x \in {} |-> x]

\* time passes with no call in progress
Tick ==
    /\ clock < MaxClock
    /\ clock' = clock + 1
    /\ request' = [op |-> "none"]
    /\ response' = Answer("none", 0)
    /\ UNCHANGED <<gemini_ai_service, flashcards_store, db_flashcards, db_documents,
                   uploaded_documents, next_uuid, next_doc>>

\* the process starts again: the dicts of the module are empty, the
\* collections of the database are what they were, and the service is
\* constructed from the configuration it was constructed from before
Restart ==
    /\ flashcards_store' = Empty
    /\ uploaded_documents' = Empty
    /\ request' = [op |-> "none"]
    /\ response' = Answer("none", 0)
    /\ UNCHANGED <<clock, gemini_ai_service, db_flashcards, db_documents,
                   next_uuid, next_doc>>

Init ==
    /\ clock = 0
    /\ gemini_ai_service \in BOOLEAN
    /\ flashcards_store = Empty
    /\ db_flashcards = <<>>
    /\ db_documents = Empty
    /\ uploaded_documents = Empty
    /\ next_uuid = 1
    /\ next_doc = 1
    /\ request = [op |-> "none"]
    /\ response = Answer("none", 0)

Next ==
    \/ Tick
    \/ Restart
    \/ \E content \in Contents, insert_ok \in BOOLEAN : UploadDocument(content, insert_ok)
    \/ \E doc_id \in DocIds, find_ok, delete_ok, count_ok \in BOOLEAN :
          DeleteDocument(doc_id, find_ok, delete_ok, count_ok)
    \/ \E doc_id \in DocIds, find_ok, insert_ok \in BOOLEAN, raw \in RawReplies(MaxCards) :
          GenerateFlashcardsForDocument(doc_id, find_ok, raw, insert_ok, 0)
    \/ \E doc_id \in DocIds : GenerateFlashcards(doc_id)
    \/ \E card_id \in CardIds, confidence \in BranchConfidences :
          Reviewable(card_id, MaxSharedCount) /\ ReviewFlashcard(card_id, confidence, 0)
    \/ \E find_ok \in BOOLEAN : GetDueFlashcards(find_ok)

Spec == Init /\ [][Next]_vars

\* one document, one card generated from it, and that card reviewed with
\* every confidence far past the end of the interval tables
NextOneCard ==
    \/ Tick
    \/ next_doc = 1 /\ UploadDocument(<<"short", "long">>, TRUE)
    \/ \E doc_id \in DocIds :
          next_uuid = 1 /\ GenerateFlashcardsForDocument(doc_id, TRUE, <<"qa">>, TRUE, 0)
    \/ \E card_id \in CardIds, confidence \in Confidences, elapsed \in 0..MaxElapsed :
          Reviewable(card_id, MaxReviewCount) /\ ReviewFlashcard(card_id, confidence, elapsed)

SpecOneCard == Init /\ [][NextOneCard]_vars

\* ---------------------------------------------------------------- properties
\* the state right after a review that found its card
Reviewed == request.op = "review" /\ response.status = 200
ReviewedCardNow == flashcards_store[request.card_id]

\* C1: a review with confidence >= 4 of a card with review_count r leaves
\* review_count = r + 1, answers interval_days = [1,3,7,14,30,60,120][min(r+1, 6)]
\* and sets next_review to now + interval_days days
C1_GoodRecall ==
    (Reviewed /\ request.confidence >= 4) =>
        LET r == request.before
            days == <<1, 3, 7, 14, 30, 60, 120>>[Min(r + 1, 6) + 1]
        IN /\ ReviewedCardNow.review_count = r + 1
           /\ response.interval_days = days
           /\ fromisoformat(ReviewedCardNow.next_review) = request.now + days * TicksPerDay

\* a good-recall review past the end of the table, with a confidence above 5
C1_Witness ==
    Reviewed /\ request.confidence > 5 /\ request.before >= 6

\* C2: a review with confidence 3 of a card with review_count r answers
\* interval_days = [1,2,4,7,14,30][min(r+1, 5)] and leaves review_count = r + 1
C2_MediumRecall ==
    (Reviewed /\ request.confidence = 3) =>
        LET r == request.before
        IN /\ response.interval_days = <<1, 2, 4, 7, 14, 30>>[Min(r + 1, 5) + 1]
           /\ ReviewedCardNow.review_count = r + 1

\* a medium-recall review past the end of the table
C2_Witness ==
    Reviewed /\ request.confidence = 3 /\ request.before >= 5

\* C3: a review with confidence <= 2 answers interval_days = 1 and leaves
\* review_count = max(0, r + 1 - 1) = r
C3_PoorRecall ==
    (Reviewed /\ request.confidence <= 2) =>
        /\ response.interval_days = 1
        /\ ReviewedCardNow.review_count = Max(0, request.before + 1 - 1)
        /\ ReviewedCardNow.review_count = request.before

\* a poor-recall review with a negative confidence of a card reviewed before
C3_Witness ==
    Reviewed /\ request.confidence < 0 /\ request.before >= 1

\* C4: every stored card has review_count >= 0
C4_CountNonNegative ==
    /\ \A id \in DOMAIN flashcards_store : flashcards_store[id].review_count >= 0
    /\ \A i \in 1..Len(db_flashcards) : db_flashcards[i].review_count >= 0

\* a poor-recall review of a card never recalled well: the count stays 0
C4_Witness ==
    /\ Reviewed /\ request.confidence <= 2 /\ request.before = 0
    /\ ReviewedCardNow.review_count = 0

\* C5: after a review next_review is later than the now of the review and
\* than last_reviewed, and interval_days is at least 1
C5_NextReviewInFuture ==
    Reviewed =>
        /\ response.interval_days >= 1
        /\ fromisoformat(ReviewedCardNow.next_review) > request.now
        /\ fromisoformat(ReviewedCardNow.next_review)
               > fromisoformat(ReviewedCardNow.last_reviewed)

\* a poor-recall review during which the clock advanced
C5_Witness ==
    Reviewed /\ response.interval_days = 1 /\ request.now > request.started

\* C6 as stated: next_review of a stored card is written by review alone
C6_OnlyReviewWrites ==
    [][\A id \in DOMAIN flashcards_store' :
          (\/ id \notin DOMAIN flashcards_store
           \/ flashcards_store'[id].next_review # flashcards_store[id].next_review)
          => (request'.op = "review" /\ request'.card_id = id)]_vars

\* C6 as amended: next_review of a stored card is written when the card is
\* generated, to the time of generation + 1 day, and by a review of the card,
\* to now + interval_days days, and by nothing else; the copy of a card in
\* the collection is written when it is inserted by generation and never again
C6_GenerationAndReviewWrite ==
    [][/\ \A id \in DOMAIN flashcards_store' :
            \/ /\ id \in DOMAIN flashcards_store
               /\ flashcards_store'[id].next_review = flashcards_store[id].next_review
            \/ /\ id \notin DOMAIN flashcards_store
               /\ request'.op = "generate_for_document"
               /\ flashcards_store'[id].next_review = isoformat(clock + 1 * TicksPerDay)
            \/ /\ id \in DOMAIN flashcards_store
               /\ request'.op = "review" /\ request'.card_id = id
               /\ response'.status = 200
               /\ flashcards_store'[id].next_review =
                      isoformat(request'.now + response'.interval_days * TicksPerDay)
       /\ Len(db_flashcards') >= Len(db_flashcards)
       /\ \A i \in 1..Len(db_flashcards') :
            IF i <= Len(db_flashcards)
            THEN db_flashcards'[i] = db_flashcards[i]
            ELSE /\ request'.op = "generate_for_document"
                 /\ db_flashcards'[i].next_review = isoformat(clock + 1 * TicksPerDay)]_vars

\* a card just generated, never reviewed, due a day after its generation,
\* beside a card whose next_review a review has set
C6_Witness ==
    /\ request.op = "generate_for_document" /\ response.status = 200
    /\ \E id \in DOMAIN flashcards_store :
          /\ ~Has(flashcards_store[id], "last_reviewed")
          /\ fromisoformat(flashcards_store[id].next_review) = clock + TicksPerDay
    /\ \E id \in DOMAIN flashcards_store : Has(flashcards_store[id], "last_reviewed")

\* C7: a review of a card id that is not in the store answers 404 and leaves
\* the store and the collection as they were
C7_UnknownCardNotFound ==
    [][(request'.op = "review" /\ request'.card_id \notin DOMAIN flashcards_store)
          => /\ response'.status = 404
             /\ flashcards_store' = flashcards_store
             /\ db_flashcards' = db_flashcards]_vars

\* a review answered 404 while the store holds a card
C7_Witness ==
    /\ request.op = "review" /\ response.status = 404
    /\ request.card_id \notin DOMAIN flashcards_store
    /\ DOMAIN flashcards_store # {}

\* C8: a review of a stored card answers 200 for every confidence: it takes
\* the good-recall branch for every confidence >= 4, the medium branch for
\* 3 and the poor-recall branch for every confidence <= 2
C8_EveryConfidenceHasItsBranch ==
    [][(request'.op = "review" /\ request'.card_id \in DOMAIN flashcards_store)
          => LET r == flashcards_store[request'.card_id].review_count
                 c == request'.confidence
                 after == flashcards_store'[request'.card_id].review_count
                 days == response'.interval_days
             IN /\ response'.status = 200
                /\ c >= 4 => /\ after = r + 1
                             /\ days = <<1, 3, 7, 14, 30, 60, 120>>[Min(r + 1, 6) + 1]
                /\ c = 3 => /\ after = r + 1
                            /\ days = <<1, 2, 4, 7, 14, 30>>[Min(r + 1, 5) + 1]
                /\ c <= 2 => /\ after = r
                             /\ days = 1
                /\ (c >= 4 /\ c # 3 /\ ~(c <= 2))
                      \/ (c = 3 /\ ~(c >= 4) /\ ~(c <= 2))
                      \/ (c <= 2 /\ ~(c >= 4) /\ c # 3)]_vars

\* reviews answered 200 for a confidence of 0 and for the largest confidence
C8_Witness ==
    /\ Reviewed
    /\ request.confidence \in {0, MaxConfidence}
    /\ ReviewedCardNow.confidence_level = request.confidence
    /\ request.before >= 2

\* the cards due-selection read from
SelectedFrom ==
    IF request.find_ok THEN db_flashcards ELSE StoreValues(flashcards_store)

\* C9: due-selection returns only cards with next_review <= now, a card with
\* next_review = now among them, ordered by descending difficulty and, for
\* equal difficulty, by ascending review_count
C9_DueAndOrdered ==
    request.op = "due" =>
        LET due == response.flashcards IN
        /\ \A i \in 1..Len(due) : fromisoformat(due[i].next_review) <= request.now
        /\ \A j \in 1..Len(SelectedFrom) :
              fromisoformat(SelectedFrom[j].next_review) = request.now
              => \E i \in 1..Len(due) : due[i].id = SelectedFrom[j].id
        /\ \A i \in 1..(Len(due) - 1) :
              \/ due[i].difficulty > due[i + 1].difficulty
              \/ /\ due[i].difficulty = due[i + 1].difficulty
                 /\ due[i].review_count <= due[i + 1].review_count

\* two due cards, the later generated one reviewed less, one due exactly now
C9_Witness ==
    /\ request.op = "due"
    /\ Len(response.flashcards) >= 2
    /\ response.flashcards[1].id > response.flashcards[2].id
    /\ response.flashcards[1].review_count < response.flashcards[2].review_count
    /\ \E i \in 1..Len(response.flashcards) :
          fromisoformat(response.flashcards[i].next_review) = request.now

\* C10: due-selection leaves the store and the collection as they were
C10_DueSelectionReadsOnly ==
    [][request'.op = "due"
          => /\ flashcards_store' = flashcards_store
             /\ db_flashcards' = db_flashcards]_vars

\* a due-selection that returned a card held in the store and the collection
C10_Witness ==
    /\ request.op = "due" /\ response.total_due >= 1
    /\ \E id \in DOMAIN flashcards_store : Has(flashcards_store[id], "oid")
    /\ db_flashcards # <<>>

\* the place of the card with an id in a sequence of cards
PlaceOf(cards, id) == CHOOSE j \in 1..Len(cards) : cards[j].id = id

\* the ids of the cards of a sequence that are due at an instant
DueIds(cards, now) ==
    { cards[j].id : j \in { k \in 1..Len(cards) : fromisoformat(cards[k].next_review) <= now } }

\* C11: the answer of a due-selection is determined by the cards it read and
\* its now: it holds each due card of them once, and two cards of it that tie
\* on difficulty and review_count stand in the order in which the store (or
\* the collection) yields them
C11_StableOrder ==
    request.op = "due" =>
        LET due == response.flashcards IN
        /\ { due[i].id : i \in 1..Len(due) } = DueIds(SelectedFrom, request.now)
        /\ \A i, j \in 1..Len(due) : i # j => due[i].id # due[j].id
        /\ \A i, j \in 1..Len(due) :
              (/\ i < j
               /\ due[i].difficulty = due[j].difficulty
               /\ due[i].review_count = due[j].review_count)
              => PlaceOf(SelectedFrom, due[i].id) < PlaceOf(SelectedFrom, due[j].id)

\* a due-selection that returned two cards of equal difficulty and
\* review_count, read from the store
C11_Witness ==
    /\ request.op = "due" /\ ~request.find_ok
    /\ Len(response.flashcards) = 2
    /\ response.flashcards[1].difficulty = response.flashcards[2].difficulty
    /\ response.flashcards[1].review_count = response.flashcards[2].review_count
    /\ response.flashcards[1].id < response.flashcards[2].id

\* C12: a review with confidence 5 of a card with review_count r leaves
\* r + 1, however large r is; its table index min(r + 1, 6) is not below
\* the index min(r, 6) of the review before and is 6 once r + 1 >= 6, where
\* interval_days is 120; a confidence-5 review that follows a confidence-5
\* review of the card answers no shorter an interval, and 120 after 120
C12_RepeatedGoodRecall ==
    [][(/\ request'.op = "review" /\ request'.confidence = 5
        /\ request'.card_id \in DOMAIN flashcards_store)
          => LET r == flashcards_store[request'.card_id].review_count
                 after == flashcards_store'[request'.card_id].review_count
                 days == response'.interval_days
             IN /\ after = r + 1
                /\ Min(after, 6) >= Min(r, 6)
                /\ after >= 6 => (Min(after, 6) = 6 /\ days = 120)
                /\ after < 6 => days < 120
                /\ (Reviewed /\ request.confidence = 5)
                      => /\ days >= response.interval_days
                         /\ response.interval_days = 120 => days = 120]_vars

\* a card with review_count 10 reviewed with confidence 5: 120 days, right
\* after a confidence-5 review of it
C12_Witness ==
    /\ Reviewed /\ request.confidence = 5 /\ request.before = 10
    /\ ReviewedCardNow.review_count = 11
    /\ response.interval_days = 120

\* C13: a card never reviewed (review_count 0) that is reviewed with
\* confidence 5 has review_count 1 and interval_days 3, next_review 3 days
\* after now; reviewed next with confidence 2 it has review_count 1 still
\* and interval_days 1
C13_FreshCardTrace ==
    [][(request'.op = "review" /\ request'.card_id \in DOMAIN flashcards_store)
          => LET card == flashcards_store[request'.card_id]
                 after == flashcards_store'[request'.card_id]
             IN /\ (/\ request'.confidence = 5
                     /\ card.review_count = 0
                     /\ ~Has(card, "last_reviewed"))
                      => /\ after.review_count = 1
                         /\ response'.interval_days = 3
                         /\ fromisoformat(after.next_review)
                                = request'.now + 3 * TicksPerDay
                /\ (/\ request'.confidence = 2
                     /\ Reviewed /\ request.card_id = request'.card_id
                     /\ request.confidence = 5 /\ request.before = 0)
                      => /\ card.review_count = 1
                         /\ after.review_count = 1
                         /\ response'.interval_days = 1]_vars

\* the card after the second review of the trace
C13_Witness ==
    /\ Reviewed /\ request.confidence = 2 /\ request.before = 1
    /\ ReviewedCardNow.review_count = 1
    /\ ReviewedCardNow.confidence_level = 2
    /\ response.interval_days = 1
    /\ fromisoformat(ReviewedCardNow.next_review) = request.now + TicksPerDay

ReviewKeys == {"review_count", "confidence_level", "last_reviewed", "next_review"}

\* C15: a review changes no key of the card it reviews but review_count,
\* confidence_level, last_reviewed and next_review, and no card but that
\* one; no other operation changes a stored card, so no operation changes
\* the id, document_id, front, back, difficulty or created_at of a card in
\* the store or in the collection
C15_ReviewFrame ==
    [][/\ \A id \in DOMAIN flashcards_store \cap DOMAIN flashcards_store' :
            LET card == flashcards_store[id]
                after == flashcards_store'[id]
            IN /\ after.id = card.id /\ after.id = id
               /\ after.document_id = card.document_id
               /\ after.front = card.front
               /\ after.back = card.back
               /\ after.difficulty = card.difficulty
               /\ after.created_at = card.created_at
               /\ (request'.op = "review" /\ request'.card_id = id)
                     => /\ DOMAIN after = DOMAIN card \cup {"last_reviewed"}
                        /\ \A k \in DOMAIN card \ ReviewKeys : after[k] = card[k]
               /\ (request'.op # "review" \/ request'.card_id # id) => after = card
       /\ request'.op = "review" =>
             /\ DOMAIN flashcards_store' = DOMAIN flashcards_store
             /\ db_flashcards' = db_flashcards
       /\ \A i \in 1..Min(Len(db_flashcards), Len(db_flashcards')) :
             db_flashcards'[i] = db_flashcards[i]]_vars

\* a card reviewed at a later time of day than it was created at, with its
\* four review keys changed, beside a second card
C15_Witness ==
    /\ Reviewed
    /\ ReviewedCardNow.created_at # ReviewedCardNow.last_reviewed
    /\ ReviewedCardNow.review_count = 1
    /\ ReviewedCardNow.confidence_level = 3
    /\ ReviewedCardNow.front = "Q" /\ ReviewedCardNow.back = "A"
    /\ Cardinality(DOMAIN flashcards_store) = 2

\* C16: every card of the store and of the collection has an integer
\* difficulty from 1 to 5 in every state, and a review, whatever its
\* confidence, leaves the difficulty of every card as it was
C16_DifficultyInRange ==
    [][/\ \A id \in DOMAIN flashcards_store' :
            flashcards_store'[id].difficulty \in 1..5
       /\ \A i \in 1..Len(db_flashcards') : db_flashcards'[i].difficulty \in 1..5
       /\ request'.op = "review" =>
             \A id \in DOMAIN flashcards_store :
                /\ id \in DOMAIN flashcards_store'
                /\ flashcards_store'[id].difficulty = flashcards_store[id].difficulty]_vars

\* a card of the store and the collection reviewed with a confidence below
\* 0, its difficulty in range
C16_Witness ==
    /\ Reviewed /\ request.confidence < 0
    /\ ReviewedCardNow.difficulty \in 1..5
    /\ Has(ReviewedCardNow, "oid")
    /\ Len(db_flashcards) = MaxCards

\* C17: a review of a card leaves every other card of the store as it was,
\* and two reviews of two different cards, each with its own confidence and
\* its own readings of the clock, leave the same store whichever of them
\* is handled first
C17_ReviewsOfDistinctCardsCommute ==
    \A a, b \in DOMAIN flashcards_store :
       a # b =>
          \A ca, cb \in BranchConfidences :
             LET a_now == clock
                 b_now == clock + MaxElapsed
                 after_a == StoreAfterReview(flashcards_store, a, ca, clock, a_now)
                 after_b == StoreAfterReview(flashcards_store, b, cb, clock, b_now)
             IN /\ after_a[b] = flashcards_store[b]
                /\ after_b[a] = flashcards_store[a]
                /\ StoreAfterReview(after_a, b, cb, clock, b_now)
                      = StoreAfterReview(after_b, a, ca, clock, a_now)

\* two cards reviewed one after the other with different confidences
C17_Witness ==
    /\ Reviewed
    /\ \E id \in DOMAIN flashcards_store \ {request.card_id} :
          /\ Has(flashcards_store[id], "last_reviewed")
          /\ flashcards_store[id].confidence_level # ReviewedCardNow.confidence_level
          /\ flashcards_store[id].review_count # ReviewedCardNow.review_count

\* what a review with a confidence adds to review_count
CountGain(confidence) == IF confidence >= 3 THEN 1 ELSE 0

C19_ResponseMatchesCard ==
    Reviewed =>
        /\ response.next_review = ReviewedCardNow.next_review
        /\ fromisoformat(response.next_review) - request.now
              = response.interval_days * TicksPerDay
        /\ (fromisoformat(ReviewedCardNow.next_review) - request.now) % TicksPerDay = 0
        /\ (fromisoformat(ReviewedCardNow.next_review) - request.now) \div TicksPerDay
              = response.interval_days

\* a review answered with an interval of several days, its now later than
\* its start and not at midnight
C19_Witness ==
    /\ Reviewed
    /\ request.now > request.started
    /\ request.now % TicksPerDay # 0
    /\ response.interval_days > 1
    /\ response.next_review = ReviewedCardNow.next_review

\* a card id of which the collection holds a copy
Persisted(id) == \E i \in 1..Len(db_flashcards) : db_flashcards[i].id = id

\* C20: when insert_many of the cards just generated raises, the call is
\* answered 200 with a card for every element of the reply of the language
\* model, none of them in the collection, each of them in the store with
\* review_count 0; and a review of a card the collection holds no copy of
\* is answered 200 and reviews it
C20_PersistFailureSwallowed ==
    [][/\ (/\ request'.op = "generate_for_document" /\ response'.status = 200
            /\ response'.message = "Flashcards generated successfully"
            /\ request'.insert_failed)
          => LET cards == response'.flashcards IN
             /\ request'.reply # <<>>
             /\ Len(cards) = Len(request'.reply)
             /\ response'.total = Len(cards)
             /\ db_flashcards' = db_flashcards
             /\ \A i \in 1..Len(cards) :
                   /\ cards[i].id \notin DOMAIN flashcards_store
                   /\ cards[i].id \in DOMAIN flashcards_store'
                   /\ flashcards_store'[cards[i].id].review_count = 0
                   /\ flashcards_store'[cards[i].id].front = cards[i].front
                   /\ flashcards_store'[cards[i].id].back = cards[i].back
                   /\ \A j \in 1..Len(db_flashcards') :
                         db_flashcards'[j].id # cards[i].id
                   /\ \A j \in 1..Len(cards) : j # i => cards[j].id # cards[i].id
       /\ (/\ request'.op = "review"
            /\ request'.card_id \in DOMAIN flashcards_store
            /\ ~Persisted(request'.card_id))
          => /\ response'.status = 200
             /\ Has(flashcards_store'[request'.card_id], "last_reviewed")
             /\ flashcards_store'[request'.card_id].confidence_level
                   = request'.confidence]_vars

\* a review answered 200 of a card whose insertion into the collection
\* failed, while the collection holds the cards of another generation
C20_Witness ==
    /\ Reviewed
    /\ ~Persisted(request.card_id)
    /\ ~Has(ReviewedCardNow, "oid")
    /\ ReviewedCardNow.review_count = 1
    /\ db_flashcards # <<>>

\* C21: POST /api/documents/{doc_id}/flashcards for a document id that is
\* neither in the document collection nor among the documents in memory is
\* answered 404 and puts no card into the store or the collection
C21_UnknownDocumentNotFound ==
    [][(/\ request'.op = "generate_for_document"
        /\ request'.doc_id \notin DOMAIN db_documents
        /\ request'.doc_id \notin DOMAIN uploaded_documents)
          => /\ response'.status = 404
             /\ flashcards_store' = flashcards_store
             /\ db_flashcards' = db_flashcards
             /\ next_uuid' = next_uuid]_vars

\* a generation answered 404 for a document that was deleted, while the
\* cards generated from it are still held
C21_Witness ==
    /\ request.op = "generate_for_document" /\ response.status = 404
    /\ request.doc_id \notin DOMAIN db_documents
    /\ request.doc_id \notin DOMAIN uploaded_documents
    /\ next_doc > request.doc_id
    /\ \E id \in DOMAIN flashcards_store :
          flashcards_store[id].document_id = request.doc_id

\* C22 as stated: a generation answered 200 returns a list of flashcards
\* that is not empty, and every card of it has the keys id, front and back,
\* whatever list the language model service returned
C22_SuccessReturnsCards ==
    (request.op = "generate_for_document" /\ response.status = 200) =>
        /\ Len(response.flashcards) > 0
        /\ \A i \in 1..Len(response.flashcards) :
              {"id", "front", "back"} \subseteq DOMAIN response.flashcards[i]

\* C23 as stated: a due-selection, read from the collection or from the
\* store, returns no card that a review has scheduled for a time after the
\* now of the selection
C23_ReviewedCardNotDueBeforeNextReview ==
    request.op = "due" =>
        \A i \in 1..Len(response.flashcards) :
           LET id == response.flashcards[i].id IN
           (id \in DOMAIN flashcards_store /\ Has(flashcards_store[id], "last_reviewed"))
              => fromisoformat(flashcards_store[id].next_review) <= request.now

\* C24 as stated: a review of a card that the due-selection just answered
\* returned is never answered 404, be the card in the store or only in the
\* collection
C24_DueCardsReviewable ==
    [][(/\ request.op = "due"
        /\ request'.op = "review"
        /\ \E i \in 1..Len(response.flashcards) :
              response.flashcards[i].id = request'.card_id)
          => response'.status # 404]_vars

\* C25 as stated: a due-selection returns every card of the store whose
\* next_review is at or before its now, each exactly once
C25_DueSelectionComplete ==
    request.op = "due" =>
        \A id \in DOMAIN flashcards_store :
           fromisoformat(flashcards_store[id].next_review) <= request.now
              => Cardinality({ i \in 1..Len(response.flashcards) :
                                  response.flashcards[i].id = id }) = 1

C27_BetterRecallNoEarlier ==
    /\ \A id \in DOMAIN flashcards_store :
          LET r == flashcards_store[id].review_count IN
          /\ \A good \in { c \in Confidences : c >= 4 },
                 poor \in { c \in Confidences : c <= 2 } :
                /\ IntervalDays(good, Incremented(r)) >= IntervalDays(3, Incremented(r))
                /\ IntervalDays(3, Incremented(r)) >= IntervalDays(poor, Incremented(r))
                /\ IntervalDays(poor, Incremented(r)) = 1
          /\ \A c \in Confidences :
                IntervalDays(c, Incremented(r + 1)) >= IntervalDays(c, Incremented(r))
    /\ Reviewed => response.interval_days
                      = IntervalDays(request.confidence, Incremented(request.before))

\* a medium-recall review past the end of both tables, answered 30 days
\* where good recall has 120
C27_Witness ==
    /\ Reviewed /\ request.confidence = 3 /\ request.before >= 6
    /\ response.interval_days = 30
    /\ IntervalDays(4, Incremented(request.before)) = 120

\* C28: the first entry of neither table is ever answered: a review with
\* confidence >= 4 answers at least 3 days, a review with confidence 3 at
\* least 2 days, and a review that answers 1 day is one with confidence <= 2;
\* the index of each table is taken from a count of at least 1
C28_FirstEntryUnreachable ==
    Reviewed =>
        /\ request.before >= 0
        /\ Min(Incremented(request.before), 6) >= 1
        /\ Min(Incremented(request.before), 5) >= 1
        /\ request.confidence >= 4 => response.interval_days >= 3
        /\ request.confidence = 3 => response.interval_days >= 2
        /\ response.interval_days = 1 => request.confidence <= 2

\* the first review of a card, with medium recall: 2 days, the shortest
\* interval of that table that is answered
C28_Witness ==
    /\ Reviewed /\ request.confidence = 3 /\ request.before = 0
    /\ response.interval_days = 2
    /\ ~(response.interval_days = PyIndex(MediumTable, 0))

\* C29 as stated: a card never reviewed has review_count 0, confidence_level
\* 0 and next_review one day after its creation, and a due-selection
\* returns it exactly when its now is at least one day after the creation
C29_NewCardDueAfterOneDay ==
    /\ \A id \in DOMAIN flashcards_store :
          ~Has(flashcards_store[id], "last_reviewed")
             => /\ flashcards_store[id].review_count = 0
                /\ flashcards_store[id].confidence_level = 0
                /\ fromisoformat(flashcards_store[id].next_review)
                      = fromisoformat(flashcards_store[id].created_at) + TicksPerDay
    /\ request.op = "due" =>
          \A id \in DOMAIN flashcards_store :
             ~Has(flashcards_store[id], "last_reviewed")
                => ((\E i \in 1..Len(response.flashcards) : response.flashcards[i].id = id)
                      <=> request.now >= fromisoformat(flashcards_store[id].created_at)
                                           + TicksPerDay)

\* a card whose document is neither in the collection nor in memory
Orphaned(card) ==
    /\ card.document_id \notin DOMAIN db_documents
    /\ card.document_id \notin DOMAIN uploaded_documents

\* C30: no call of the API takes a card out of the store and no step at all
\* takes one out of the collection, so neither loses cards while the process
\* runs; the deletion of a document leaves the store and the collection as
\* they were; a review of a card whose document is deleted is answered 200,
\* and a due-selection returns such a card when it is due among the cards
\* it reads
C30_CardsNeverRemoved ==
    [][/\ request'.op # "none" =>
             /\ DOMAIN flashcards_store \subseteq DOMAIN flashcards_store'
             /\ Cardinality(DOMAIN flashcards_store')
                   >= Cardinality(DOMAIN flashcards_store)
       /\ Len(db_flashcards') >= Len(db_flashcards)
       /\ \A i \in 1..Len(db_flashcards) : db_flashcards'[i].id = db_flashcards[i].id
       /\ request'.op = "delete" =>
             /\ flashcards_store' = flashcards_store
             /\ db_flashcards' = db_flashcards
       /\ (/\ request'.op = "review"
            /\ request'.card_id \in DOMAIN flashcards_store
            /\ Orphaned(flashcards_store[request'.card_id]))
          => response'.status = 200
       /\ request'.op = "due" =>
             LET read == IF request'.find_ok THEN db_flashcards
                         ELSE StoreValues(flashcards_store)
             IN \A j \in 1..Len(read) :
                   (Orphaned(read[j]) /\ fromisoformat(read[j].next_review) <= request'.now)
                      => \E i \in 1..Len(response'.flashcards) :
                            response'.flashcards[i].id = read[j].id]_vars

\* a due-selection that returned a card of the store whose document was
\* deleted
C30_Witness ==
    /\ request.op = "due" /\ ~request.find_ok
    /\ next_doc > 1
    /\ DOMAIN db_documents = {} /\ DOMAIN uploaded_documents = {}
    /\ \E i \in 1..Len(response.flashcards) :
          /\ response.flashcards[i].id \in DOMAIN flashcards_store
          /\ response.flashcards[i].document_id < next_doc

====
